---- MODULE Spec2Model ----
(***************************************************************************)
(* Governance-and-staking ledger of SolanaPRBot:                           *)
(*   src/src/dao/token.py       TokenManager      (ledger, staking)        *)
(*   src/src/dao/governance.py  GovernanceManager (proposals, votes)       *)
(*                                                                         *)
(* Units.  Amounts are Decimal token amounts in the source; here they are  *)
(* integers counted in thousands of tokens (kGDT), so that TLC's integers  *)
(* hold every product the resolution rule forms.  Times are datetime and   *)
(* timedelta values in the source; here they are whole days.  Fractions    *)
(* (required_quorum, proposal_threshold, apr) are whole percents.          *)
(* Every call reads datetime.now() once or twice in a row; the model gives *)
(* a call one instant, `now`, and lets time pass between calls (Tick).     *)
(*                                                                         *)
(* Errors.  The source raises ValueError with a message (and lets other    *)
(* exceptions through); `last.err` names the error by the kind the         *)
(* specification gives to that message.                                    *)
(***************************************************************************)
EXTENDS Integers, Sequences, FiniteSets, TLC

VARIABLES
    now,                \* wall clock, datetime.now(), in days
    balances,           \* TokenManager.balances: address -> amount (a dict)
    staking_pools,      \* TokenManager.staking_pools: pool id -> running totals
    staking_positions,  \* TokenManager.staking_positions: position id -> position
    next_position_id,   \* TokenManager.next_position_id
    config,             \* GovernanceManager.config (GovernanceConfig)
    proposals,          \* GovernanceManager.proposals: id -> Proposal
    votes,              \* GovernanceManager.votes: id -> list of Vote
    next_proposal_id,   \* GovernanceManager.next_proposal_id
    calls,              \* the coroutines of the event loop: task -> its position
    applied,            \* history: proposal id -> number of times its payload ran
    last                \* history: the last call and how it ended

vars == <<now, balances, staking_pools, staking_positions, next_position_id,
          config, proposals, votes, next_proposal_id, calls, applied, last>>

tokenVars == <<balances, staking_pools, staking_positions, next_position_id>>
stakeVars == <<staking_pools, staking_positions, next_position_id>>
govVars   == <<config, proposals, votes, next_proposal_id, calls, applied>>

----------------------------------------------------------------------------
(* Bounds of the model *)

MaxTime == 7
MaxProposals == 1
MaxCreateTime == 1
MaxPositions == 2
MaxBalance == 100000
MaxStakeTime == 31
MaxTasks == 2
MaxRewardSteps == 5

Address == {"a", "b"}

\* The token distribution the ledger starts from (token.py's example sets
\* balances directly: there is no mint operation).  "a" alone reaches the quorum
\* of 4% of the total supply, "b" does not; both may propose.
InitialBalances == { [x \in {"a", "b"} |-> IF x = "a" THEN 50000 ELSE 30000] }

\* Amounts a caller may pass to transfer: negative, zero, affordable, too large.
TransferAmounts == {0 - 20000, 0, 20000, 60000}

----------------------------------------------------------------------------
(* Program constants *)

\* TokenInfo.total_supply = Decimal("1000000000") tokens, in kGDT
TotalSupply == 1000000
\* GovernanceConfig defaults
MinProposalPower == 100     \* Decimal("100000") tokens, in kGDT
VotingDelay == 1            \* timedelta(hours=24)
VotingPeriod == 3           \* timedelta(days=3)
ExecutionDelay == 2         \* timedelta(days=2)
RequiredQuorum == 4         \* Decimal("0.04"), in percent
ProposalThreshold == 50     \* Decimal("0.5"), in percent
\* Optional[datetime] = None
NoTime == -1

GovernanceConfig ==
    [ min_proposal_power |-> MinProposalPower,
      voting_delay       |-> VotingDelay,
      voting_period      |-> VotingPeriod,
      execution_delay    |-> ExecutionDelay,
      required_quorum    |-> RequiredQuorum,
      proposal_threshold |-> ProposalThreshold ]

----------------------------------------------------------------------------
(* Helpers *)

\* d[k] = v on a Python dict
Put(d, k, v) == [x \in (DOMAIN d) \cup {k} |-> IF x = k THEN v ELSE d[x]]

RECURSIVE SumOver(_, _)
SumOver(f, S) ==
    IF S = {} THEN 0
    ELSE LET x == CHOOSE y \in S : TRUE IN f[x] + SumOver(f, S \ {x})

\* Sum of all account balances
SumBalances(b) == SumOver(b, DOMAIN b)

\* The record of a call: the operation, the calling party, the proposal, pool or
\* position id, how it ended, for a transfer the receiver and the amount, and
\* what the call returned where the model looks at it
Call(op, who, id, err) ==
    [op |-> op, who |-> who, id |-> id, err |-> err, to |-> "-", amount |-> 0,
     result |-> "-"]

----------------------------------------------------------------------------
(* Ledger: TokenManager.get_balance, TokenManager.transfer *)

get_balance(b, address) == IF address \in DOMAIN b THEN b[address] ELSE 0

\* Called by governance.py (lines 191 and 274); token.py holds no definition
\* of it.  Modelled as the read-only accessor of TokenInfo.total_supply.
get_total_supply == TotalSupply

\* (mutant of transfer_error: a transfer of the whole balance is refused)
transfer_error_strict(b, from_address, amount) ==
    IF get_balance(b, from_address) <= amount THEN "InsufficientBalance" ELSE "ok"

\* transfer's check: raise ValueError("Insufficient balance")
transfer_error(b, from_address, amount) ==
    IF get_balance(b, from_address) < amount THEN "InsufficientBalance" ELSE "ok"

\* (mutant of transfer_balances: the credit is computed from the balance read
\* before the debit was written)
transfer_balances_stale(b, from_address, to_address, amount) ==
    LET b1 == Put(b, from_address, get_balance(b, from_address) - amount)
    IN  Put(b1, to_address, get_balance(b, to_address) + amount)

\* transfer's two assignments, in order (the second reads the dict the first wrote)
transfer_balances(b, from_address, to_address, amount) ==
    LET b1 == Put(b, from_address, get_balance(b, from_address) - amount)
    IN  Put(b1, to_address, get_balance(b1, to_address) + amount)

transfer(from_address, to_address, amount) ==
    LET err == transfer_error(balances, from_address, amount) IN
    /\ balances' = IF err = "ok"
                   THEN transfer_balances(balances, from_address, to_address, amount)
                   ELSE balances
    /\ last' = [Call("transfer", from_address, 0, err)
                   EXCEPT !.to = to_address, !.amount = amount]
    /\ UNCHANGED <<now, stakeVars, govVars>>

----------------------------------------------------------------------------
(* Staking: TokenManager.stake_tokens, unstake_tokens, claim_rewards *)

\* StakingPool attributes fixed at construction (TokenManager.__init__)
PoolIds == {1, 2}
PoolType(pool_id) == IF pool_id = 1 THEN "flexible" ELSE "locked"
\* apr in percent: Decimal("0.15"), Decimal("0.25")
PoolApr(pool_id) == IF pool_id = 1 THEN 15 ELSE 25
\* min_stake in kGDT: Decimal("1000"), Decimal("5000")
PoolMinStake(pool_id) == IF pool_id = 1 THEN 1 ELSE 5
\* (mutant of PoolLockPeriod: the flexible pool has a lock period too)
PoolLockPeriod_all(pool_id) == 30

\* lock_period in days: None, timedelta(days=30)
PoolLockPeriod(pool_id) == IF pool_id = 1 THEN NoTime ELSE 30
\* Decimal(31536000) seconds, in days
DaysPerYear == 365

\* Amounts a caller may pass to stake_tokens: below every minimum, and an amount
\* whose reward per day is a whole number of kGDT in both pools.
StakeAmounts == {0, 7300}
\* The same, and an amount no party can afford
StakeAmounts2 == StakeAmounts \cup {60000}

\* (mutant of calculate_rewards: the rewards claimed so far earn rewards too)
calculate_rewards_compound(position, t) ==
    ((position.amount + position.rewards_claimed) * PoolApr(position.pool_id)
        * (t - position.last_claim_time)) \div (100 * DaysPerYear)

\* (mutant of calculate_rewards: the time staked is counted from start_time)
calculate_rewards_start(position, t) ==
    (position.amount * PoolApr(position.pool_id) * (t - position.start_time))
        \div (100 * DaysPerYear)

\* _calculate_rewards: position.amount * pool.apr * years
calculate_rewards(position, t) ==
    (position.amount * PoolApr(position.pool_id) * (t - position.last_claim_time))
        \div (100 * DaysPerYear)

\* (mutant of stake_error: the balance check is missing)
stake_error_nobalance(pool_id, b, user, amount) ==
    IF pool_id \notin DOMAIN staking_pools THEN "UnknownPool"
    ELSE IF amount < PoolMinStake(pool_id) THEN "BelowMinimumStake"
    ELSE "ok"

\* The checks of stake_tokens, in the order of the code
stake_error(pool_id, b, user, amount) ==
    IF pool_id \notin DOMAIN staking_pools THEN "UnknownPool"
    ELSE IF amount < PoolMinStake(pool_id) THEN "BelowMinimumStake"
    ELSE IF get_balance(b, user) < amount THEN "InsufficientBalance"
    ELSE "ok"

\* (mutant of stake_tokens: the amount is not taken from the balance)
stake_tokens_undebited(user, pool_id, amount) ==
    LET err == stake_error(pool_id, balances, user, amount) IN
    /\ last' = [Call("stake_tokens", user, pool_id, err) EXCEPT !.amount = amount]
    /\ IF err = "ok"
       THEN /\ balances' = balances
            /\ staking_pools' =
                 [staking_pools EXCEPT ![pool_id].total_staked = @ + amount]
            /\ staking_positions' = Put(staking_positions, next_position_id,
                 [ position_id     |-> next_position_id,
                   user            |-> user,
                   pool_id         |-> pool_id,
                   amount          |-> amount,
                   start_time      |-> now,
                   end_time        |-> IF PoolLockPeriod(pool_id) # NoTime
                                       THEN now + PoolLockPeriod(pool_id)
                                       ELSE NoTime,
                   rewards_claimed |-> 0,
                   last_claim_time |-> now ])
            /\ next_position_id' = next_position_id + 1
       ELSE UNCHANGED tokenVars
    /\ UNCHANGED <<now, govVars>>

\* (mutant of stake_tokens: the amount is not added to the pool's total_staked)
stake_tokens_uncounted(user, pool_id, amount) ==
    LET err == stake_error(pool_id, balances, user, amount) IN
    /\ last' = [Call("stake_tokens", user, pool_id, err) EXCEPT !.amount = amount]
    /\ IF err = "ok"
       THEN /\ balances' = [balances EXCEPT ![user] = @ - amount]
            /\ staking_pools' = staking_pools
            /\ staking_positions' = Put(staking_positions, next_position_id,
                 [ position_id     |-> next_position_id,
                   user            |-> user,
                   pool_id         |-> pool_id,
                   amount          |-> amount,
                   start_time      |-> now,
                   end_time        |-> IF PoolLockPeriod(pool_id) # NoTime
                                       THEN now + PoolLockPeriod(pool_id)
                                       ELSE NoTime,
                   rewards_claimed |-> 0,
                   last_claim_time |-> now ])
            /\ next_position_id' = next_position_id + 1
       ELSE UNCHANGED tokenVars
    /\ UNCHANGED <<now, govVars>>

stake_tokens(user, pool_id, amount) ==
    LET err == stake_error(pool_id, balances, user, amount) IN
    /\ last' = [Call("stake_tokens", user, pool_id, err) EXCEPT !.amount = amount]
    /\ IF err = "ok"
       THEN /\ balances' = [balances EXCEPT ![user] = @ - amount]
            /\ staking_pools' =
                 [staking_pools EXCEPT ![pool_id].total_staked = @ + amount]
            /\ staking_positions' = Put(staking_positions, next_position_id,
                 [ position_id     |-> next_position_id,
                   user            |-> user,
                   pool_id         |-> pool_id,
                   amount          |-> amount,
                   start_time      |-> now,
                   end_time        |-> IF PoolLockPeriod(pool_id) # NoTime
                                       THEN now + PoolLockPeriod(pool_id)
                                       ELSE NoTime,
                   rewards_claimed |-> 0,
                   last_claim_time |-> now ])
            /\ next_position_id' = next_position_id + 1
       ELSE UNCHANGED tokenVars
    /\ UNCHANGED <<now, govVars>>

\* (mutant of position_error: the owner check is missing)
position_error_anyone(user, position_id) ==
    IF position_id \notin DOMAIN staking_positions THEN "UnknownPosition" ELSE "ok"

\* "not position or position.user != user"
position_error(user, position_id) ==
    IF position_id \notin DOMAIN staking_positions THEN "UnknownPosition"
    ELSE IF staking_positions[position_id].user # user THEN "UnknownPosition"
    ELSE "ok"

\* (mutant of unstake_error: the lock still holds at end_time)
unstake_error_late(user, position_id) ==
    IF position_error(user, position_id) # "ok" THEN position_error(user, position_id)
    ELSE IF /\ PoolType(staking_positions[position_id].pool_id) = "locked"
            /\ now <= staking_positions[position_id].end_time
         THEN "TokensLocked"
    ELSE "ok"

unstake_error(user, position_id) ==
    IF position_error(user, position_id) # "ok" THEN position_error(user, position_id)
    ELSE IF /\ PoolType(staking_positions[position_id].pool_id) = "locked"
            /\ now < staking_positions[position_id].end_time
         THEN "TokensLocked"
    ELSE "ok"

\* (mutant of unstake_tokens: the rewards are not added to the pool's
\* total_rewards_distributed)
unstake_tokens_untold(user, position_id) ==
    LET err == unstake_error(user, position_id) IN
    /\ last' = IF err = "ok"
               THEN [Call("unstake_tokens", user, position_id, err) EXCEPT
                       !.result = <<staking_positions[position_id].amount,
                                    calculate_rewards(staking_positions[position_id], now)>>]
               ELSE Call("unstake_tokens", user, position_id, err)
    /\ IF err = "ok"
       THEN LET position == staking_positions[position_id]
                rewards  == calculate_rewards(position, now)
            IN  /\ balances' =
                     [balances EXCEPT ![user] = @ + position.amount + rewards]
                /\ staking_pools' =
                     [staking_pools EXCEPT
                        ![position.pool_id].total_staked = @ - position.amount]
                /\ staking_positions' =
                     [x \in (DOMAIN staking_positions) \ {position_id} |->
                        staking_positions[x]]
                /\ UNCHANGED next_position_id
       ELSE UNCHANGED tokenVars
    /\ UNCHANGED <<now, govVars>>

unstake_tokens(user, position_id) ==
    LET err == unstake_error(user, position_id) IN
    \* "return position.amount, rewards"
    /\ last' = IF err = "ok"
               THEN [Call("unstake_tokens", user, position_id, err) EXCEPT
                       !.result = <<staking_positions[position_id].amount,
                                    calculate_rewards(staking_positions[position_id], now)>>]
               ELSE Call("unstake_tokens", user, position_id, err)
    /\ IF err = "ok"
       THEN LET position == staking_positions[position_id]
                rewards  == calculate_rewards(position, now)
            IN  /\ balances' =
                     [balances EXCEPT ![user] = @ + position.amount + rewards]
                /\ staking_pools' =
                     [staking_pools EXCEPT
                        ![position.pool_id].total_staked = @ - position.amount,
                        ![position.pool_id].total_rewards_distributed = @ + rewards]
                /\ staking_positions' =
                     [x \in (DOMAIN staking_positions) \ {position_id} |->
                        staking_positions[x]]
                /\ UNCHANGED next_position_id
       ELSE UNCHANGED tokenVars
    /\ UNCHANGED <<now, govVars>>

\* (mutant of claim_rewards: last_claim_time is not advanced)
claim_rewards_again(user, position_id) ==
    LET err == position_error(user, position_id) IN
    /\ last' = IF err = "ok"
               THEN [Call("claim_rewards", user, position_id, err) EXCEPT
                       !.result = calculate_rewards(staking_positions[position_id], now)]
               ELSE Call("claim_rewards", user, position_id, err)
    /\ IF err = "ok"
       THEN LET position == staking_positions[position_id]
                rewards  == calculate_rewards(position, now)
            IN  /\ staking_positions' =
                     [staking_positions EXCEPT
                        ![position_id].rewards_claimed = @ + rewards]
                /\ balances' = [balances EXCEPT ![user] = @ + rewards]
                /\ staking_pools' =
                     [staking_pools EXCEPT
                        ![position.pool_id].total_rewards_distributed = @ + rewards]
                /\ UNCHANGED next_position_id
       ELSE UNCHANGED tokenVars
    /\ UNCHANGED <<now, govVars>>

claim_rewards(user, position_id) ==
    LET err == position_error(user, position_id) IN
    \* "return rewards"
    /\ last' = IF err = "ok"
               THEN [Call("claim_rewards", user, position_id, err) EXCEPT
                       !.result = calculate_rewards(staking_positions[position_id], now)]
               ELSE Call("claim_rewards", user, position_id, err)
    /\ IF err = "ok"
       THEN LET position == staking_positions[position_id]
                rewards  == calculate_rewards(position, now)
            IN  /\ staking_positions' =
                     [staking_positions EXCEPT
                        ![position_id].rewards_claimed = @ + rewards,
                        ![position_id].last_claim_time = now]
                /\ balances' = [balances EXCEPT ![user] = @ + rewards]
                /\ staking_pools' =
                     [staking_pools EXCEPT
                        ![position.pool_id].total_rewards_distributed = @ + rewards]
                /\ UNCHANGED next_position_id
       ELSE UNCHANGED tokenVars
    /\ UNCHANGED <<now, govVars>>

----------------------------------------------------------------------------
(* Governance: GovernanceManager *)

VoteType == {"for", "against", "abstain"}

\* Execution payloads a proposer may attach.  type "None" is Python's None (no
\* payload), "{}" the empty dict, "no_type" a dict without a 'type' key, "mint" a
\* dict whose type is neither 'transfer' nor 'parameter_change'.
Payloads ==
    { [type |-> "None"],
      [type |-> "{}"],
      [type |-> "no_type"],
      [type |-> "mint"],
      [type |-> "transfer", from_address |-> "a", to_address |-> "b", amount |-> 30000],
      [type |-> "transfer", from_address |-> "b", to_address |-> "a", amount |-> 40000],
      [type |-> "parameter_change", parameter |-> "execution_delay", value |-> 1],
      [type |-> "parameter_change", parameter |-> "proposal_threshold", value |-> 100] }

\* "if proposal.execution_payload:" (None and the empty dict are falsy)
Truthy(payload) == payload.type \notin {"None", "{}"}

\* "total_votes / total_supply >= proposal.required_quorum"
\* (mutant of QuorumReached: the quorum of the current config is compared, not
\* the one stored on the proposal)
QuorumReached_config(p) ==
    (p.votes_for + p.votes_against + p.votes_abstain) * 100
        >= config.required_quorum * get_total_supply

QuorumReached(p) ==
    (p.votes_for + p.votes_against + p.votes_abstain) * 100
        >= p.required_quorum * get_total_supply

\* "proposal.votes_for / (proposal.votes_for + proposal.votes_against)": Decimal
\* division by zero raises (decimal.InvalidOperation or decimal.DivisionByZero)
ApprovalDivides(p) == p.votes_for + p.votes_against # 0

\* "... >= self.config.proposal_threshold"
ApprovalReached(p, cfg) ==
    p.votes_for * 100 >= cfg.proposal_threshold * (p.votes_for + p.votes_against)

\* (mutant of check_proposal_state: "if" instead of "elif", so that a draft is
\* activated and resolved by one call)
check_proposal_state_if(p, t, cfg) ==
    LET q == IF p.status = "draft" /\ t >= p.start_time
             THEN [p EXCEPT !.status = "active"] ELSE p
    IN  IF q.status = "active" /\ t >= q.end_time
        THEN IF QuorumReached(q)
             THEN IF ~ApprovalDivides(q)
                  THEN [p |-> q, err |-> "ArithmeticError"]
                  ELSE IF ApprovalReached(q, cfg)
                  THEN [p |-> [q EXCEPT !.status = "succeeded"], err |-> "ok"]
                  ELSE [p |-> [q EXCEPT !.status = "defeated"], err |-> "ok"]
             ELSE [p |-> [q EXCEPT !.status = "defeated"], err |-> "ok"]
        ELSE [p |-> q, err |-> "ok"]

\* _check_proposal_state: the proposal after the call and how the call ended
check_proposal_state(p, t, cfg) ==
    IF p.status = "draft" /\ t >= p.start_time
    THEN [p |-> [p EXCEPT !.status = "active"], err |-> "ok"]
    ELSE IF p.status = "active" /\ t >= p.end_time
    THEN IF QuorumReached(p)
         THEN IF ~ApprovalDivides(p)
              THEN [p |-> p, err |-> "ArithmeticError"]
              ELSE IF ApprovalReached(p, cfg)
              THEN [p |-> [p EXCEPT !.status = "succeeded"], err |-> "ok"]
              ELSE [p |-> [p EXCEPT !.status = "defeated"], err |-> "ok"]
         ELSE [p |-> [p EXCEPT !.status = "defeated"], err |-> "ok"]
    ELSE [p |-> p, err |-> "ok"]

\* (mutant of create_proposal_error: the default min_proposal_power is compared,
\* not the one of the current config)
create_proposal_error_default(b, cfg, proposer) ==
    IF get_balance(b, proposer) < MinProposalPower
    THEN "InsufficientProposalPower" ELSE "ok"

create_proposal_error(b, cfg, proposer) ==
    IF get_balance(b, proposer) < cfg.min_proposal_power
    THEN "InsufficientProposalPower" ELSE "ok"

\* (mutant of create_proposal: end_time is computed with the default
\* voting_period, not the one of the current config)
create_proposal_period(proposer, execution_payload) ==
    LET err == create_proposal_error(balances, config, proposer) IN
    /\ last' = Call("create_proposal", proposer, next_proposal_id, err)
    /\ IF err = "ok"
       THEN /\ proposals' = Put(proposals, next_proposal_id,
                 [ id                |-> next_proposal_id,
                   proposer          |-> proposer,
                   start_time        |-> now + config.voting_delay,
                   end_time          |-> now + config.voting_delay + VotingPeriod,
                   execution_delay   |-> config.execution_delay,
                   status            |-> "draft",
                   required_quorum   |-> config.required_quorum,
                   votes_for         |-> 0,
                   votes_against     |-> 0,
                   votes_abstain     |-> 0,
                   execution_payload |-> execution_payload,
                   executed_at       |-> NoTime ])
            /\ votes' = Put(votes, next_proposal_id, <<>>)
            /\ applied' = Put(applied, next_proposal_id, 0)
            /\ next_proposal_id' = next_proposal_id + 1
            /\ UNCHANGED <<config, calls>>
       ELSE UNCHANGED govVars
    /\ UNCHANGED <<now, tokenVars>>

create_proposal(proposer, execution_payload) ==
    LET err == create_proposal_error(balances, config, proposer) IN
    /\ last' = Call("create_proposal", proposer, next_proposal_id, err)
    /\ IF err = "ok"
       THEN /\ proposals' = Put(proposals, next_proposal_id,
                 [ id                |-> next_proposal_id,
                   proposer          |-> proposer,
                   start_time        |-> now + config.voting_delay,
                   end_time          |-> now + config.voting_delay + config.voting_period,
                   execution_delay   |-> config.execution_delay,
                   status            |-> "draft",
                   required_quorum   |-> config.required_quorum,
                   votes_for         |-> 0,
                   votes_against     |-> 0,
                   votes_abstain     |-> 0,
                   execution_payload |-> execution_payload,
                   executed_at       |-> NoTime ])
            /\ votes' = Put(votes, next_proposal_id, <<>>)
            /\ applied' = Put(applied, next_proposal_id, 0)
            /\ next_proposal_id' = next_proposal_id + 1
            /\ UNCHANGED <<config, calls>>
       ELSE UNCHANGED govVars
    /\ UNCHANGED <<now, tokenVars>>

\* "existing_votes = [v for v in self.votes[proposal_id] if v.voter == voter]"
existing_votes(vs, voter) == {i \in 1..Len(vs) : vs[i].voter = voter}

\* (mutant of cast_vote_error: the "Already voted" check is missing)
cast_vote_error_revote(proposal_id, voter) ==
    IF proposal_id \notin DOMAIN proposals THEN "ProposalNotFound"
    ELSE IF now < proposals[proposal_id].start_time THEN "VotingNotStarted"
    ELSE IF now > proposals[proposal_id].end_time THEN "VotingEnded"
    ELSE "ok"

\* (mutant of cast_vote_error: the "Voting has not started yet" check is missing)
cast_vote_error_early(proposal_id, voter) ==
    IF proposal_id \notin DOMAIN proposals THEN "ProposalNotFound"
    ELSE IF now > proposals[proposal_id].end_time THEN "VotingEnded"
    ELSE IF existing_votes(votes[proposal_id], voter) # {} THEN "AlreadyVoted"
    ELSE "ok"

\* (mutant of cast_vote_error: the "Already voted" check comes before the
\* checks of the voting window)
cast_vote_error_voted_first(proposal_id, voter) ==
    IF proposal_id \notin DOMAIN proposals THEN "ProposalNotFound"
    ELSE IF existing_votes(votes[proposal_id], voter) # {} THEN "AlreadyVoted"
    ELSE IF now < proposals[proposal_id].start_time THEN "VotingNotStarted"
    ELSE IF now > proposals[proposal_id].end_time THEN "VotingEnded"
    ELSE "ok"

\* The checks of cast_vote, in the order of the code
cast_vote_error(proposal_id, voter) ==
    IF proposal_id \notin DOMAIN proposals THEN "ProposalNotFound"
    ELSE IF now < proposals[proposal_id].start_time THEN "VotingNotStarted"
    ELSE IF now > proposals[proposal_id].end_time THEN "VotingEnded"
    ELSE IF existing_votes(votes[proposal_id], voter) # {} THEN "AlreadyVoted"
    ELSE "ok"

\* (mutant of add_vote: every vote is added to votes_for, whatever its type)
add_vote_for(p, vote_type, voting_power) == [p EXCEPT !.votes_for = @ + voting_power]

\* (mutant of add_vote: a vote counts for one, whatever its voting power)
add_vote_heads(p, vote_type, voting_power) ==
    IF vote_type = "for" THEN [p EXCEPT !.votes_for = @ + 1]
    ELSE IF vote_type = "against" THEN [p EXCEPT !.votes_against = @ + 1]
    ELSE [p EXCEPT !.votes_abstain = @ + 1]

\* "proposal.votes_for += voting_power" and its two siblings
add_vote(p, vote_type, voting_power) ==
    IF vote_type = "for" THEN [p EXCEPT !.votes_for = @ + voting_power]
    ELSE IF vote_type = "against" THEN [p EXCEPT !.votes_against = @ + voting_power]
    ELSE [p EXCEPT !.votes_abstain = @ + voting_power]

cast_vote(voter, proposal_id, vote_type) ==
    LET err == cast_vote_error(proposal_id, voter) IN
    IF err # "ok"
    THEN /\ last' = Call("cast_vote", voter, proposal_id, err)
         /\ UNCHANGED <<now, tokenVars, govVars>>
    ELSE LET voting_power == get_balance(balances, voter)
             vote == [ voter        |-> voter,
                       proposal_id  |-> proposal_id,
                       vote_type    |-> vote_type,
                       voting_power |-> voting_power,
                       timestamp    |-> now ]
             counted == add_vote(proposals[proposal_id], vote_type, voting_power)
             checked == check_proposal_state(counted, now, config)
         IN  /\ votes' = [votes EXCEPT ![proposal_id] = Append(@, vote)]
             /\ proposals' = [proposals EXCEPT ![proposal_id] = checked.p]
             /\ last' = Call("cast_vote", voter, proposal_id, checked.err)
             /\ UNCHANGED <<now, tokenVars, config, next_proposal_id, calls, applied>>

\* (mutant of execute_payload: a parameter change also resets voting_period)
execute_payload_two_fields(payload, b, cfg) ==
    IF payload.type = "transfer"
    THEN LET err == transfer_error(b, payload.from_address, payload.amount) IN
         [ err |-> err,
           balances |-> IF err = "ok"
                        THEN transfer_balances(b, payload.from_address,
                                               payload.to_address, payload.amount)
                        ELSE b,
           config |-> cfg ]
    ELSE IF payload.type = "parameter_change"
    THEN [ err |-> "ok", balances |-> b,
           config |-> [cfg EXCEPT ![payload.parameter] = payload.value,
                                  !.voting_period = 1] ]
    ELSE [ err |-> "UnknownPayloadType", balances |-> b, config |-> cfg ]

\* (mutant of execute_payload: the transfer writes the balances before it checks
\* the sender's balance)
execute_payload_unchecked(payload, b, cfg) ==
    IF payload.type = "transfer"
    THEN [ err |-> transfer_error(b, payload.from_address, payload.amount),
           balances |-> transfer_balances(b, payload.from_address,
                                          payload.to_address, payload.amount),
           config |-> cfg ]
    ELSE IF payload.type = "parameter_change"
    THEN [ err |-> "ok", balances |-> b,
           config |-> [cfg EXCEPT ![payload.parameter] = payload.value] ]
    ELSE [ err |-> "UnknownPayloadType", balances |-> b, config |-> cfg ]

\* _execute_payload: the ledger and the config after it, and how it ended
execute_payload(payload, b, cfg) ==
    IF payload.type = "transfer"
    THEN LET err == transfer_error(b, payload.from_address, payload.amount) IN
         [ err |-> err,
           balances |-> IF err = "ok"
                        THEN transfer_balances(b, payload.from_address,
                                               payload.to_address, payload.amount)
                        ELSE b,
           config |-> cfg ]
    ELSE IF payload.type = "parameter_change"
    THEN [ err |-> "ok", balances |-> b,
           config |-> [cfg EXCEPT ![payload.parameter] = payload.value] ]
    ELSE [ err |-> "UnknownPayloadType", balances |-> b, config |-> cfg ]

\* (mutant of execution_time: the delay of the current config, not the proposal's)
execution_time_config(p) == p.end_time + config.execution_delay

\* "execution_time = proposal.end_time + proposal.execution_delay"
execution_time(p) == p.end_time + p.execution_delay

\* (mutant of execute_proposal_error: the status check is missing)
execute_proposal_error_any(proposal_id) ==
    IF proposal_id \notin DOMAIN proposals THEN "ProposalNotFound"
    ELSE IF now < execution_time(proposals[proposal_id]) THEN "TimelockNotElapsed"
    ELSE "ok"

\* The checks of execute_proposal that come before the payload
execute_proposal_error(proposal_id) ==
    IF proposal_id \notin DOMAIN proposals THEN "ProposalNotFound"
    ELSE IF proposals[proposal_id].status # "succeeded" THEN "NotSucceeded"
    ELSE IF now < execution_time(proposals[proposal_id]) THEN "TimelockNotElapsed"
    ELSE "ok"

execute_proposal(proposal_id) ==
    LET err == execute_proposal_error(proposal_id) IN
    IF err # "ok"
    THEN /\ last' = Call("execute_proposal", "-", proposal_id, err)
         /\ UNCHANGED <<now, tokenVars, govVars>>
    ELSE LET proposal == proposals[proposal_id]
             ran == Truthy(proposal.execution_payload)
             done == IF ran
                     THEN execute_payload(proposal.execution_payload, balances, config)
                     ELSE [err |-> "ok", balances |-> balances, config |-> config]
         IN  /\ last' = Call("execute_proposal", "-", proposal_id, done.err)
             /\ balances' = done.balances
             /\ config' = done.config
             /\ IF done.err = "ok"
                THEN /\ proposals' = [proposals EXCEPT
                                        ![proposal_id].status = "executed",
                                        ![proposal_id].executed_at = now]
                     /\ applied' = [applied EXCEPT
                                      ![proposal_id] = IF ran THEN @ + 1 ELSE @]
                ELSE UNCHANGED <<proposals, applied>>
             /\ UNCHANGED <<now, stakeVars, votes, next_proposal_id, calls>>

get_proposal(proposal_id) ==
    IF proposal_id \notin DOMAIN proposals
    THEN /\ last' = Call("get_proposal", "-", proposal_id, "ok")
         /\ UNCHANGED <<now, tokenVars, govVars>>
    ELSE LET checked == check_proposal_state(proposals[proposal_id], now, config) IN
         /\ proposals' = [proposals EXCEPT ![proposal_id] = checked.p]
         /\ last' = Call("get_proposal", "-", proposal_id, checked.err)
         /\ UNCHANGED <<now, tokenVars, config, votes, next_proposal_id, calls, applied>>

\* The dict get_proposal_result returns; a rate is the fraction num / den
proposal_result(p) ==
    [ status             |-> p.status,
      votes_for          |-> p.votes_for,
      votes_against      |-> p.votes_against,
      votes_abstain      |-> p.votes_abstain,
      participation_rate |-> [num |-> p.votes_for + p.votes_against + p.votes_abstain,
                              den |-> get_total_supply],
      approval_rate      |-> IF p.votes_for + p.votes_against > 0
                             THEN [num |-> p.votes_for,
                                   den |-> p.votes_for + p.votes_against]
                             ELSE [num |-> 0, den |-> 1],
      quorum_reached     |-> QuorumReached(p) ]

get_proposal_result(proposal_id) ==
    IF proposal_id \notin DOMAIN proposals
    THEN /\ last' = Call("get_proposal_result", "-", proposal_id, "ProposalNotFound")
         /\ UNCHANGED <<now, tokenVars, govVars>>
    ELSE LET checked == check_proposal_state(proposals[proposal_id], now, config) IN
         /\ proposals' = [proposals EXCEPT ![proposal_id] = checked.p]
         /\ last' = IF checked.err = "ok"
                    THEN [Call("get_proposal_result", "-", proposal_id, "ok") EXCEPT
                            !.result = proposal_result(checked.p)]
                    ELSE Call("get_proposal_result", "-", proposal_id, checked.err)
         /\ UNCHANGED <<now, tokenVars, config, votes, next_proposal_id, calls, applied>>

----------------------------------------------------------------------------
(* Coroutines.  cast_vote and execute_proposal are coroutines of one event    *)
(* loop: a call runs without interruption up to an await that suspends it,   *)
(* and other calls run before it resumes.  cast_vote awaits get_balance (line *)
(* 145) and, inside _check_proposal_state, get_total_supply (line 191);       *)
(* execute_proposal awaits _execute_payload (line 221), which awaits the      *)
(* ledger's transfer (line 239) and nothing else.  Each task makes one call.  *)

Tasks == 1..MaxTasks

\* A task that has made no call yet
Idle ==
    [ pc |-> "idle", op |-> "-", who |-> "-", id |-> 0, vote_type |-> "-",
      t |-> NoTime, total_votes |-> 0, votes_seen |-> 0, recorded |-> FALSE,
      amount |-> 0, pool_id |-> 0, rewards |-> 0, err |-> "-" ]

\* The call of a task has returned or raised
Done(c, err) == [c EXCEPT !.pc = "done", !.err = err]

\* The checks of cast_vote before its first await
cast_vote_window_error(proposal_id) ==
    IF proposal_id \notin DOMAIN proposals THEN "ProposalNotFound"
    ELSE IF now < proposals[proposal_id].start_time THEN "VotingNotStarted"
    ELSE IF now > proposals[proposal_id].end_time THEN "VotingEnded"
    ELSE "ok"

\* (mutant of cast_vote_recorded_error: the "Already voted" check is not made
\* after the await)
cast_vote_recorded_error_none(proposal_id, voter) == "ok"

\* The check of cast_vote after its first await
cast_vote_recorded_error(proposal_id, voter) ==
    IF existing_votes(votes[proposal_id], voter) # {} THEN "AlreadyVoted" ELSE "ok"

\* cast_vote up to "await self.token_manager.get_balance(voter)"
cast_vote_begin(task, voter, proposal_id, vote_type) ==
    /\ calls[task].pc = "idle"
    /\ LET err == cast_vote_window_error(proposal_id)
           c == [Idle EXCEPT !.op = "cast_vote", !.who = voter, !.id = proposal_id,
                             !.vote_type = vote_type, !.t = now,
                             !.votes_seen = IF err = "ok"
                                            THEN Len(votes[proposal_id]) ELSE 0]
       IN  IF err # "ok"
           THEN /\ calls' = [calls EXCEPT ![task] = Done(c, err)]
                /\ last' = Call("cast_vote", voter, proposal_id, err)
           ELSE /\ calls' = [calls EXCEPT ![task] = [c EXCEPT !.pc = "get_balance"]]
                /\ UNCHANGED last
    /\ UNCHANGED <<now, tokenVars, config, proposals, votes, next_proposal_id, applied>>

\* cast_vote from the result of get_balance up to its return, or up to
\* "await self.token_manager.get_total_supply()" in _check_proposal_state
cast_vote_record(task) ==
    LET c == calls[task] IN
    /\ c.pc = "get_balance"
    /\ LET err == cast_vote_recorded_error(c.id, c.who) IN
       IF err # "ok"
       THEN /\ calls' = [calls EXCEPT ![task] = Done(c, err)]
            /\ last' = Call("cast_vote", c.who, c.id, err)
            /\ UNCHANGED <<proposals, votes>>
       ELSE LET voting_power == get_balance(balances, c.who)
                vote == [ voter        |-> c.who,
                          proposal_id  |-> c.id,
                          vote_type    |-> c.vote_type,
                          voting_power |-> voting_power,
                          timestamp    |-> c.t ]
                counted == add_vote(proposals[c.id], c.vote_type, voting_power)
                r == [c EXCEPT !.recorded = TRUE]
            IN  /\ votes' = [votes EXCEPT ![c.id] = Append(@, vote)]
                /\ IF counted.status = "draft" /\ now >= counted.start_time
                   THEN /\ proposals' = [proposals EXCEPT
                                           ![c.id] = [counted EXCEPT !.status = "active"]]
                        /\ calls' = [calls EXCEPT ![task] = Done(r, "ok")]
                        /\ last' = Call("cast_vote", c.who, c.id, "ok")
                   ELSE IF counted.status = "active" /\ now >= counted.end_time
                   THEN /\ proposals' = [proposals EXCEPT ![c.id] = counted]
                        /\ calls' = [calls EXCEPT ![task] =
                              [r EXCEPT !.pc = "get_total_supply",
                                        !.total_votes = counted.votes_for
                                           + counted.votes_against
                                           + counted.votes_abstain]]
                        /\ UNCHANGED last
                   ELSE /\ proposals' = [proposals EXCEPT ![c.id] = counted]
                        /\ calls' = [calls EXCEPT ![task] = Done(r, "ok")]
                        /\ last' = Call("cast_vote", c.who, c.id, "ok")
    /\ UNCHANGED <<now, tokenVars, config, next_proposal_id, applied>>

\* cast_vote from the result of get_total_supply to its return: the quorum and
\* approval checks of _check_proposal_state
cast_vote_resolve(task) ==
    LET c == calls[task]
        p == proposals[c.id]
        quorum == c.total_votes * 100 >= p.required_quorum * get_total_supply
        err == IF quorum /\ ~ApprovalDivides(p) THEN "ArithmeticError" ELSE "ok"
        status == IF quorum /\ ApprovalReached(p, config)
                  THEN "succeeded" ELSE "defeated"
    IN  /\ c.pc = "get_total_supply"
        /\ proposals' = IF err = "ok"
                        THEN [proposals EXCEPT ![c.id].status = status]
                        ELSE proposals
        /\ calls' = [calls EXCEPT ![task] = Done(c, err)]
        /\ last' = Call("cast_vote", c.who, c.id, err)
        /\ UNCHANGED <<now, tokenVars, config, votes, next_proposal_id, applied>>

\* execute_proposal up to "await self.token_manager.transfer(...)" in
\* _execute_payload, or to its end when the payload is not a transfer
execute_proposal_begin(task, proposal_id) ==
    LET err == execute_proposal_error(proposal_id)
        c == [Idle EXCEPT !.op = "execute_proposal", !.id = proposal_id, !.t = now]
    IN
    /\ calls[task].pc = "idle"
    /\ IF err # "ok"
       THEN /\ calls' = [calls EXCEPT ![task] = Done(c, err)]
            /\ last' = Call("execute_proposal", "-", proposal_id, err)
            /\ UNCHANGED <<balances, config, proposals, applied>>
       ELSE LET payload == proposals[proposal_id].execution_payload
                ran == Truthy(payload)
                done == IF ran THEN execute_payload(payload, balances, config)
                        ELSE [err |-> "ok", balances |-> balances, config |-> config]
            IN  IF ran /\ payload.type = "transfer"
                THEN /\ calls' = [calls EXCEPT ![task] = [c EXCEPT !.pc = "transfer"]]
                     /\ UNCHANGED <<balances, config, proposals, applied, last>>
                ELSE /\ calls' = [calls EXCEPT ![task] = Done(c, done.err)]
                     /\ last' = Call("execute_proposal", "-", proposal_id, done.err)
                     /\ balances' = done.balances
                     /\ config' = done.config
                     /\ IF done.err = "ok"
                        THEN /\ proposals' = [proposals EXCEPT
                                                ![proposal_id].status = "executed",
                                                ![proposal_id].executed_at = now]
                             /\ applied' = [applied EXCEPT
                                              ![proposal_id] = IF ran THEN @ + 1 ELSE @]
                        ELSE UNCHANGED <<proposals, applied>>
    /\ UNCHANGED <<now, stakeVars, votes, next_proposal_id>>

\* execute_proposal from the transfer of its payload to its return
execute_proposal_finish(task) ==
    LET c == calls[task]
        payload == proposals[c.id].execution_payload
        done == execute_payload(payload, balances, config)
    IN  /\ c.pc = "transfer"
        /\ calls' = [calls EXCEPT ![task] = Done(c, done.err)]
        /\ last' = Call("execute_proposal", "-", c.id, done.err)
        /\ balances' = done.balances
        /\ config' = done.config
        /\ IF done.err = "ok"
           THEN /\ proposals' = [proposals EXCEPT ![c.id].status = "executed",
                                                  ![c.id].executed_at = c.t]
                /\ applied' = [applied EXCEPT ![c.id] = @ + 1]
           ELSE UNCHANGED <<proposals, applied>>
        /\ UNCHANGED <<now, stakeVars, votes, next_proposal_id>>

\* unstake_tokens and claim_rewards await _calculate_rewards (token.py 186,
\* 213) between their checks and their updates.  A call suspended there holds
\* the StakingPosition object it read (its amount and pool_id never change)
\* and the rewards calculated for it.

\* unstake_tokens up to the await of the rewards
unstake_tokens_begin(task, user, position_id) ==
    LET err == unstake_error(user, position_id)
        c == [Idle EXCEPT !.op = "unstake_tokens", !.who = user, !.id = position_id,
                          !.t = now]
    IN
    /\ calls[task].pc = "idle"
    /\ IF err # "ok"
       THEN /\ calls' = [calls EXCEPT ![task] = Done(c, err)]
            /\ last' = Call("unstake_tokens", user, position_id, err)
       ELSE LET position == staking_positions[position_id] IN
            /\ calls' = [calls EXCEPT ![task] =
                           [c EXCEPT !.pc = "rewards",
                                     !.amount = position.amount,
                                     !.pool_id = position.pool_id,
                                     !.rewards = calculate_rewards(position, now)]]
            /\ UNCHANGED last
    /\ UNCHANGED <<now, tokenVars, config, proposals, votes, next_proposal_id, applied>>

\* unstake_tokens from the "Update state" lines to its return; the del of a
\* position that is gone raises KeyError after the three updates before it
unstake_tokens_finish(task) ==
    LET c == calls[task]
        err == IF c.id \in DOMAIN staking_positions THEN "ok" ELSE "KeyError"
    IN  /\ c.pc = "rewards" /\ c.op = "unstake_tokens"
        /\ balances' = [balances EXCEPT ![c.who] = @ + c.amount + c.rewards]
        /\ staking_pools' =
             [staking_pools EXCEPT
                ![c.pool_id].total_staked = @ - c.amount,
                ![c.pool_id].total_rewards_distributed = @ + c.rewards]
        /\ staking_positions' =
             [x \in (DOMAIN staking_positions) \ {c.id} |-> staking_positions[x]]
        /\ calls' = [calls EXCEPT ![task] = Done(c, err)]
        /\ last' = IF err = "ok"
                   THEN [Call("unstake_tokens", c.who, c.id, err) EXCEPT
                           !.result = <<c.amount, c.rewards>>]
                   ELSE Call("unstake_tokens", c.who, c.id, err)
        /\ UNCHANGED <<now, next_position_id, config, proposals, votes,
                       next_proposal_id, applied>>

\* claim_rewards up to the await of the rewards
claim_rewards_begin(task, user, position_id) ==
    LET err == position_error(user, position_id)
        c == [Idle EXCEPT !.op = "claim_rewards", !.who = user, !.id = position_id,
                          !.t = now]
    IN
    /\ calls[task].pc = "idle"
    /\ IF err # "ok"
       THEN /\ calls' = [calls EXCEPT ![task] = Done(c, err)]
            /\ last' = Call("claim_rewards", user, position_id, err)
       ELSE LET position == staking_positions[position_id] IN
            /\ calls' = [calls EXCEPT ![task] =
                           [c EXCEPT !.pc = "rewards",
                                     !.amount = position.amount,
                                     !.pool_id = position.pool_id,
                                     !.rewards = calculate_rewards(position, now)]]
            /\ UNCHANGED last
    /\ UNCHANGED <<now, tokenVars, config, proposals, votes, next_proposal_id, applied>>

\* claim_rewards from the "Update state" lines to its return; the position
\* object is updated whether or not it is still in staking_positions
claim_rewards_finish(task) ==
    LET c == calls[task] IN
    /\ c.pc = "rewards" /\ c.op = "claim_rewards"
    /\ staking_positions' =
         IF c.id \in DOMAIN staking_positions
         THEN [staking_positions EXCEPT ![c.id].rewards_claimed = @ + c.rewards,
                                        ![c.id].last_claim_time = now]
         ELSE staking_positions
    /\ balances' = [balances EXCEPT ![c.who] = @ + c.rewards]
    /\ staking_pools' =
         [staking_pools EXCEPT ![c.pool_id].total_rewards_distributed = @ + c.rewards]
    /\ calls' = [calls EXCEPT ![task] = Done(c, "ok")]
    /\ last' = [Call("claim_rewards", c.who, c.id, "ok") EXCEPT !.result = c.rewards]
    /\ UNCHANGED <<now, next_position_id, config, proposals, votes,
                   next_proposal_id, applied>>

----------------------------------------------------------------------------
(* Time and the specifications *)

\* Time passes between two calls
Tick ==
    /\ now < MaxTime
    /\ now' = now + 1
    /\ last' = Call("tick", "-", 0, "ok")
    /\ UNCHANGED <<tokenVars, govVars>>

Init ==
    /\ now = 0
    /\ balances \in InitialBalances
    /\ staking_pools =
         [pool_id \in PoolIds |-> [total_staked |-> 0, total_rewards_distributed |-> 0]]
    /\ staking_positions = <<>>
    /\ next_position_id = 1
    /\ config = GovernanceConfig
    /\ proposals = <<>>
    /\ votes = <<>>
    /\ next_proposal_id = 1
    /\ calls = [task \in Tasks |-> Idle]
    /\ applied = <<>>
    /\ last = Call("init", "-", 0, "ok")

\* The calls on the governance manager, with the callers' inputs drawn from the
\* given sets: at most maxp proposals, created no later than day maxc.
GovNext(maxp, maxc, proposers, voters, types, payloads) ==
    \/ Tick
    \/ \E proposer \in proposers, payload \in payloads :
          /\ next_proposal_id <= maxp
          /\ now <= maxc
          /\ create_proposal(proposer, payload)
    \/ \E voter \in voters, id \in 1..maxp, vt \in types : cast_vote(voter, id, vt)
    \/ \E id \in 1..maxp : get_proposal(id)
    \/ \E id \in 1..maxp : get_proposal_result(id)
    \/ \E id \in 1..maxp : execute_proposal(id)

\* One proposal, every voter, every payload, created on any day; "c" holds no
\* tokens
NextGov == GovNext(MaxProposals, MaxTime, {"a", "c"}, Address, VoteType, Payloads)

SpecGov == Init /\ [][NextGov]_vars

\* Several proposals, created early, with one voter, two choices and the payloads
\* that act
Payloads2 ==
    {p \in Payloads : \/ p.type = "parameter_change" /\ p.parameter = "execution_delay"
                      \/ p.type = "transfer" /\ p.from_address = "a"}

NextGov2 == GovNext(MaxProposals + 1, MaxCreateTime, {"a"}, {"a"}, {"for", "against"}, Payloads2)

SpecGov2 == Init /\ [][NextGov2]_vars

\* Payloads that change what later creations see: the power a proposer needs
\* and the voting period
PayloadsCreate ==
    { [type |-> "parameter_change", parameter |-> "min_proposal_power", value |-> 40000],
      [type |-> "parameter_change", parameter |-> "voting_period", value |-> 2] }

\* Several proposals of two proposers, created on any day, voted by one voter
NextCreate ==
    GovNext(MaxProposals + 1, MaxTime, {"a", "b"}, {"a"}, {"for"}, PayloadsCreate)

SpecCreate == Init /\ [][NextCreate]_vars

\* No balance has left [-MaxBalance, MaxBalance]: transfers stop once one has
Bounded == \A x \in DOMAIN balances :
              balances[x] <= MaxBalance /\ 0 - balances[x] <= MaxBalance

\* The calls on the token manager, with the callers' inputs drawn from the given
\* sets, and at most maxpos positions.
TokenNext(maxpos, payers, payees, amounts, users, stakes) ==
    \/ \E from_address \in payers, to_address \in payees, amount \in amounts :
          Bounded /\ transfer(from_address, to_address, amount)
    \/ \E user \in users, pool_id \in PoolIds \cup {3}, amount \in stakes :
          /\ next_position_id <= maxpos
          /\ stake_tokens(user, pool_id, amount)
    \/ \E user \in users, position_id \in 1..maxpos :
          unstake_tokens(user, position_id)
    \/ \E user \in users, position_id \in 1..maxpos :
          claim_rewards(user, position_id)

\* The ledger alone: transfers between three parties, one of them unknown
NextLedger ==
    \E from_address \in Address \cup {"c"}, to_address \in Address \cup {"c"},
       amount \in TransferAmounts :
          Bounded /\ transfer(from_address, to_address, amount)

SpecLedger == Init /\ [][NextLedger]_vars

\* Time passes between two calls, up to a later one of the given instants
Later(instants) ==
    /\ \E t \in instants : t > now /\ now' = t
    /\ last' = Call("tick", "-", 0, "ok")
    /\ UNCHANGED <<tokenVars, govVars>>

\* The instants at which the staking calls are made: the first days, and the
\* days around the end of a lock period that started on one of them
StakeInstants ==
    {0, 1, PoolLockPeriod(2) - 1, PoolLockPeriod(2), MaxStakeTime}

\* The staking calls of two users, around the end of a lock period
NextStake ==
    \/ Later(StakeInstants)
    \/ \E user \in Address, pool_id \in PoolIds \cup {3}, amount \in StakeAmounts2 :
          /\ next_position_id <= MaxPositions
          /\ stake_tokens(user, pool_id, amount)
    \/ \E user \in Address, position_id \in 1..MaxPositions :
          unstake_tokens(user, position_id)
    \/ \E user \in Address, position_id \in 1..MaxPositions :
          claim_rewards(user, position_id)

SpecStake == Init /\ [][NextStake]_vars

\* Payloads that change what a resolution compares: the approval threshold to
\* 0.7, the quorum to 0.09
PayloadsBind ==
    { [type |-> "parameter_change", parameter |-> "proposal_threshold", value |-> 70],
      [type |-> "parameter_change", parameter |-> "required_quorum", value |-> 9] }

\* Two proposals created on the first day, one of which changes the config
\* before the other is resolved; one holder votes for, the other against
NextBind ==
    \/ Tick
    \/ \E payload \in PayloadsBind :
          /\ next_proposal_id <= MaxProposals + 1
          /\ now = 0
          /\ create_proposal("a", payload)
    \/ \E id \in 1..(MaxProposals + 1) : cast_vote("a", id, "for")
    \/ \E id \in 1..(MaxProposals + 1) : cast_vote("b", id, "against")
    \/ \E id \in 1..(MaxProposals + 1) : get_proposal(id)
    \/ \E id \in 1..(MaxProposals + 1) : execute_proposal(id)

SpecBind == Init /\ [][NextBind]_vars

\* Proposals that are voted on and read: time goes on up to MaxTime, past the
\* end_time of every proposal, and every proposal keeps being read
NextRead ==
    \/ Tick
    \/ /\ next_proposal_id <= MaxProposals
       /\ now <= MaxCreateTime
       /\ create_proposal("a", [type |-> "None"])
    \/ \E voter \in Address, id \in 1..MaxProposals, vt \in VoteType :
          cast_vote(voter, id, vt)
    \/ \E id \in 1..MaxProposals : get_proposal(id)

SpecRead ==
    /\ Init /\ [][NextRead]_vars
    /\ WF_vars(Tick)
    /\ \A id \in 1..MaxProposals : WF_vars(get_proposal(id))

\* Transfers and staking calls over time: transfers of 20000 between the two
\* holders and to a new address, and the staking calls of one of the holders
NextValue ==
    \/ Later(StakeInstants)
    \/ TokenNext(MaxPositions, {"a", "b"}, {"a", "b", "c"}, {20000}, {"a"}, {7300})

SpecValue == Init /\ [][NextValue]_vars

\* The staking calls of one holder, whose unstake_tokens and claim_rewards
\* calls are made by tasks that run concurrently
NextUnstake ==
    \/ Later(StakeInstants)
    \/ \E pool_id \in PoolIds :
          /\ next_position_id <= MaxPositions
          /\ stake_tokens("a", pool_id, 7300)
    \/ \E task \in Tasks, position_id \in 1..MaxPositions :
          unstake_tokens_begin(task, "a", position_id)
    \/ \E task \in Tasks : unstake_tokens_finish(task)
    \/ \E task \in Tasks, position_id \in 1..MaxPositions :
          claim_rewards_begin(task, "a", position_id)
    \/ \E task \in Tasks : claim_rewards_finish(task)

SpecUnstake == Init /\ [][NextUnstake]_vars

\* The instants at which rewards are looked at: every fifth of a year, so that
\* the rewards of the principal below are whole amounts
RewardInstants == {k * (DaysPerYear \div 5) : k \in 0..MaxRewardSteps}

\* The principal of the reward example
RewardAmounts == {5000}

\* The staking calls of one user over a year and more
NextReward ==
    \/ Later(RewardInstants)
    \/ \E pool_id \in PoolIds, amount \in RewardAmounts :
          /\ next_position_id <= MaxPositions
          /\ stake_tokens("a", pool_id, amount)
    \/ \E position_id \in 1..MaxPositions : unstake_tokens("a", position_id)
    \/ \E position_id \in 1..MaxPositions : claim_rewards("a", position_id)

SpecReward == Init /\ [][NextReward]_vars

\* The payloads of the proposals whose calls run concurrently: none, and a
\* transfer that its sender can afford twice
PayloadsAsync ==
    { [type |-> "None"],
      [type |-> "transfer", from_address |-> "a", to_address |-> "b", amount |-> 20000] }

\* Calls of one voter that run one after the other, and the calls of the tasks,
\* which run concurrently
NextAsync ==
    \/ GovNext(MaxProposals, 0, {"a"}, {"a"}, {"for"}, PayloadsAsync)
    \/ \E task \in Tasks, id \in 1..MaxProposals : cast_vote_begin(task, "a", id, "for")
    \/ \E task \in Tasks : cast_vote_record(task)
    \/ \E task \in Tasks : cast_vote_resolve(task)
    \/ \E task \in Tasks, id \in 1..MaxProposals : execute_proposal_begin(task, id)
    \/ \E task \in Tasks : execute_proposal_finish(task)

SpecAsync == Init /\ [][NextAsync]_vars

\* Every operation: one proposal carrying a transfer or a parameter change, one
\* voter, one position
Next ==
    \/ GovNext(MaxProposals, 0, {"a"}, {"a"}, {"for"}, Payloads2)
    \/ TokenNext(MaxPositions - 1, {"a"}, {"b"}, {0 - 60000, 60000}, {"a"}, {7300})

Spec == Init /\ [][Next]_vars

----------------------------------------------------------------------------
(* Properties *)

RECURSIVE SumPower(_, _)
\* Sum of the recorded voting power of the votes of one choice in a vote list
SumPower(vs, vote_type) ==
    IF vs = <<>> THEN 0
    ELSE (IF Head(vs).vote_type = vote_type THEN Head(vs).voting_power ELSE 0)
         + SumPower(Tail(vs), vote_type)

\* C1. One-vote rule: every proposal's vote list holds at most one record per
\* voter, and the running totals count each recorded vote's power exactly once
\* (they equal the sums over the vote list), so no voter is counted twice.
C1_OneVoteRule ==
    \A id \in DOMAIN proposals :
        /\ \A voter \in Address :
              Cardinality(existing_votes(votes[id], voter)) <= 1
        /\ proposals[id].votes_for = SumPower(votes[id], "for")
        /\ proposals[id].votes_against = SumPower(votes[id], "against")
        /\ proposals[id].votes_abstain = SumPower(votes[id], "abstain")

\* C1 witness: a second cast_vote by a voter with a recorded vote was just
\* rejected, while both voters have voted on the proposal.
C1_Witness ==
    /\ last.op = "cast_vote" /\ last.err = "AlreadyVoted"
    /\ existing_votes(votes[last.id], last.who) # {}
    /\ Len(votes[last.id]) = 2
    /\ votes[last.id][1].voting_power > 0 /\ votes[last.id][2].voting_power > 0

\* C2. Conservation: no transfer call, successful or failing, between any two
\* parties (the same party twice, or a party the ledger does not know yet)
\* changes the sum of all balances.
C2_Conservation == [][SumBalances(balances') = SumBalances(balances)]_vars

\* C2 witness: a party has just transferred a positive amount to itself, after a
\* transfer reached a party that was unknown to the ledger and a transfer of a
\* negative amount left that party in debt.
C2_Witness ==
    /\ last.op = "transfer" /\ last.err = "ok"
    /\ last.to = last.who /\ last.amount > 0
    /\ "c" \in DOMAIN balances
    /\ balances["c"] < 0

\* C3. Non-negative balances: no account balance is ever below zero.
C3_NonNegative == \A x \in DOMAIN balances : balances[x] >= 0

\* The resolution rule as the claim states it: quorum and approval reached; the
\* approval ratio of a proposal without for and against votes reaches nothing
RuleSucceeds(p, cfg) ==
    /\ (p.votes_for + p.votes_against + p.votes_abstain) * 100
          >= p.required_quorum * TotalSupply
    /\ p.votes_for + p.votes_against # 0
    /\ p.votes_for * 100 >= cfg.proposal_threshold * (p.votes_for + p.votes_against)

\* The calls that read a proposal
Reads == {"get_proposal", "get_proposal_result"}

\* C4. Resolution rule: a read of an ACTIVE proposal at now >= end_time leaves it
\* SUCCEEDED if quorum and approval threshold are reached and DEFEATED otherwise.
C4_ResolutionRule ==
    [][\A id \in DOMAIN proposals :
          ( /\ last'.op \in Reads /\ last'.id = id
            /\ proposals[id].status = "active"
            /\ now >= proposals[id].end_time )
          => proposals'[id].status =
                IF RuleSucceeds(proposals[id], config) THEN "succeeded" ELSE "defeated"
      ]_vars

\* C5. Lifecycle edges: a stored status changes only draft -> active (at or after
\* start_time), active -> succeeded or defeated (at or after end_time) and
\* succeeded -> executed (in execute_proposal); a new proposal is a draft, no
\* proposal is removed or cancelled, and the passage of time changes no proposal.
C5_LifecycleEdges ==
    [][ /\ DOMAIN proposals \subseteq DOMAIN proposals'
        /\ \A id \in DOMAIN proposals' :
              /\ proposals'[id].status # "cancelled"
              /\ id \notin DOMAIN proposals => proposals'[id].status = "draft"
        /\ \A id \in DOMAIN proposals :
              LET old == proposals[id].status
                  new == proposals'[id].status
              IN  old # new =>
                    \/ /\ old = "draft" /\ new = "active"
                       /\ now >= proposals[id].start_time
                    \/ /\ old = "active" /\ new \in {"succeeded", "defeated"}
                       /\ now >= proposals[id].end_time
                    \/ /\ old = "succeeded" /\ new = "executed"
                       /\ last'.op = "execute_proposal" /\ last'.id = id
        /\ now' # now => proposals' = proposals
      ]_vars

\* C5 witness: a proposal has gone all the way to executed
C5_Witness ==
    \E id \in DOMAIN proposals :
        /\ proposals[id].status = "executed"
        /\ last.op = "execute_proposal" /\ last.err = "ok" /\ last.id = id

\* C6. Voting window: every recorded vote carries a time inside its proposal's
\* window; a cast_vote before start_time ends VotingNotStarted and one after
\* end_time ends VotingEnded, whatever the stored status, and neither changes the
\* vote lists or the proposals; a vote is recorded only inside the window.
C6_VotingWindow ==
    /\ [](\A id \in DOMAIN votes : \A i \in 1..Len(votes[id]) :
             /\ proposals[id].start_time <= votes[id][i].timestamp
             /\ votes[id][i].timestamp <= proposals[id].end_time)
    /\ [][\A id \in DOMAIN proposals :
            /\ (last'.op = "cast_vote" /\ last'.id = id) =>
                 /\ now < proposals[id].start_time =>
                      /\ last'.err = "VotingNotStarted"
                      /\ votes' = votes /\ proposals' = proposals
                 /\ now > proposals[id].end_time =>
                      /\ last'.err = "VotingEnded"
                      /\ votes' = votes /\ proposals' = proposals
            /\ votes'[id] # votes[id] =>
                 /\ proposals[id].start_time <= now /\ now <= proposals[id].end_time
                 /\ votes'[id][Len(votes'[id])].timestamp = now
         ]_vars

\* C6 witness: a vote was just rejected as VotingEnded on a proposal whose stored
\* status is still draft, and that holds a vote recorded at its end_time.
C6_Witness ==
    /\ last.op = "cast_vote" /\ last.err = "VotingEnded"
    /\ proposals[last.id].status \in {"draft", "active"}
    /\ \E i \in 1..Len(votes[last.id]) :
          votes[last.id][i].timestamp = proposals[last.id].end_time

\* C7. resolve runs on every call: an execute_proposal at or after
\* end_time + execution_delay on a proposal whose tallies reach quorum and
\* threshold is not refused because its stored status is still draft or active.
C7_ExecuteResolves ==
    ~ ( /\ last.op = "execute_proposal"
        /\ last.id \in DOMAIN proposals
        /\ last.err = "NotSucceeded"
        /\ proposals[last.id].status \in {"draft", "active"}
        /\ now >= proposals[last.id].end_time + proposals[last.id].execution_delay
        /\ RuleSucceeds(proposals[last.id], config) )

\* The errors of a payload that does not execute
PayloadErrors == {"InsufficientBalance", "UnknownPayloadType"}

\* C8 as stated. Timelock: an execute_proposal on a SUCCEEDED proposal fails only
\* before end_time + execution_delay; at or after it, it succeeds.
C8_TimelockAsStated ==
    ( /\ last.op = "execute_proposal"
      /\ last.id \in DOMAIN proposals
      /\ last.err # "ok"
      /\ proposals[last.id].status = "succeeded" )
    => now < proposals[last.id].end_time + proposals[last.id].execution_delay

\* C8, amended. Timelock: an execute_proposal on a SUCCEEDED proposal ends
\* TimelockNotElapsed, changing nothing, exactly when
\* now < end_time + execution_delay, with the execution_delay stored on the
\* proposal at its creation; at or after that time it succeeds unless its payload
\* fails to execute.  Every EXECUTED proposal has executed_at set, at or after
\* end_time + execution_delay, and no other proposal has executed_at set.
C8_Timelock ==
    /\ [](\A id \in DOMAIN proposals :
            LET p == proposals[id] IN
            /\ p.status = "executed" <=> p.executed_at # NoTime
            /\ p.status = "executed" => p.executed_at >= p.end_time + p.execution_delay)
    /\ [][\A id \in DOMAIN proposals :
            LET p == proposals[id] IN
            ( /\ last'.op = "execute_proposal" /\ last'.id = id
              /\ p.status = "succeeded" ) =>
                IF now < p.end_time + p.execution_delay
                THEN /\ last'.err = "TimelockNotElapsed"
                     /\ UNCHANGED <<now, tokenVars, govVars>>
                ELSE /\ last'.err \in {"ok"} \cup PayloadErrors
                     /\ last'.err = "ok" =>
                          /\ proposals'[id].status = "executed"
                          /\ proposals'[id].executed_at = now
                     /\ last'.err \in PayloadErrors =>
                          Truthy(p.execution_payload)
         ]_vars

\* C8 witness: an execute_proposal was just refused as TimelockNotElapsed at a
\* time that the execution_delay of the current config would already allow: the
\* config was changed after the proposal's creation.
C8_Witness ==
    /\ last.op = "execute_proposal" /\ last.err = "TimelockNotElapsed"
    /\ config.execution_delay # proposals[last.id].execution_delay
    /\ now >= proposals[last.id].end_time + config.execution_delay

\* What the transfers applied for proposal id have added to the balance of x
Moved(id, x) ==
    LET payload == proposals[id].execution_payload IN
    IF payload.type = "transfer"
    THEN applied[id] * ( (IF payload.to_address = x THEN payload.amount ELSE 0)
                         - (IF payload.from_address = x THEN payload.amount ELSE 0) )
    ELSE 0

\* C9. Execute at most once: an execute_proposal on a proposal that is not
\* SUCCEEDED ends NotSucceeded; a proposal's payload is applied at most once, only
\* by the call that makes it EXECUTED, and never for a DEFEATED proposal; the
\* ledger holds the initial balances moved by these applications, once each.
C9_ExecuteOnce ==
    /\ \A id \in DOMAIN proposals :
          /\ applied[id] <= 1
          /\ applied[id] = 1 => proposals[id].status = "executed"
          /\ proposals[id].status = "defeated" => applied[id] = 0
    /\ \A x \in Address :
          balances[x] = (CHOOSE b \in InitialBalances : TRUE)[x]
                          + SumOver([id \in DOMAIN proposals |-> Moved(id, x)],
                                    DOMAIN proposals)
    /\ ( /\ last.op = "execute_proposal"
         /\ last.id \in DOMAIN proposals
         /\ proposals[last.id].status \in {"draft", "active", "defeated"} )
       => last.err = "NotSucceeded"
    /\ ( /\ last.op = "execute_proposal"
         /\ last.id \in DOMAIN proposals
         /\ proposals[last.id].status = "executed" )
       => last.err \in {"ok", "NotSucceeded"}

\* C9 witness: a second execute_proposal on a proposal whose transfer was applied
\* was just refused as NotSucceeded.
C9_Witness ==
    /\ last.op = "execute_proposal" /\ last.err = "NotSucceeded"
    /\ proposals[last.id].status = "executed"
    /\ proposals[last.id].execution_payload.type = "transfer"
    /\ applied[last.id] = 1

\* C10. Retryable execution: an execute_proposal whose payload fails (the
\* transfer is refused, or the payload type is unknown) changes neither the
\* proposal, which stays SUCCEEDED without executed_at, nor the ledger, nor the
\* config, and the same call is admissible again.
C10_Retryable ==
    [][\A id \in DOMAIN proposals :
          ( /\ last'.op = "execute_proposal" /\ last'.id = id
            /\ last'.err \in PayloadErrors ) =>
              /\ UNCHANGED <<now, tokenVars, govVars>>
              /\ proposals'[id].status = "succeeded"
              /\ proposals'[id].executed_at = NoTime
              /\ execute_proposal_error(id)' = "ok"
      ]_vars

\* C10 witness: the transfer of a SUCCEEDED proposal past its timelock was just
\* refused for insufficient balance.
C10_Witness ==
    /\ last.op = "execute_proposal" /\ last.err = "InsufficientBalance"
    /\ proposals[last.id].status = "succeeded"
    /\ now >= proposals[last.id].end_time + proposals[last.id].execution_delay

\* The calls that run _check_proposal_state on the proposal they name
Resolving == Reads \cup {"cast_vote"}

\* C11. Abstain-only resolution: a call that resolves an ACTIVE proposal at
\* now >= end_time, whose votes reach the quorum while votes_for = votes_against
\* = 0, does not fail and leaves the proposal DEFEATED.
C11_AbstainOnlyDefeated ==
    [][\A id \in DOMAIN proposals :
          ( /\ last'.op \in Resolving /\ last'.id = id
            /\ last'.err \notin {"VotingNotStarted", "VotingEnded", "AlreadyVoted"}
            /\ proposals[id].status = "active"
            /\ now >= proposals[id].end_time
            /\ QuorumReached(proposals'[id])
            /\ proposals'[id].votes_for = 0 /\ proposals'[id].votes_against = 0 )
          => /\ last'.err = "ok"
             /\ proposals'[id].status = "defeated"
      ]_vars

\* C12. Lock enforcement: an unstake_tokens by the owner of a position in the
\* locked pool ends TokensLocked and changes no balance, pool total or position
\* when now < position.end_time, and succeeds when now >= end_time; for a
\* position in the flexible pool it succeeds at any time.
C12_LockEnforcement ==
    [][\A id \in DOMAIN staking_positions :
          LET position == staking_positions[id] IN
          ( /\ last'.op = "unstake_tokens" /\ last'.id = id
            /\ last'.who = position.user ) =>
              IF PoolType(position.pool_id) = "locked" /\ now < position.end_time
              THEN /\ last'.err = "TokensLocked"
                   /\ UNCHANGED tokenVars
              ELSE /\ last'.err = "ok"
                   /\ id \notin DOMAIN staking_positions'
                   /\ balances'[position.user] >= balances[position.user] + position.amount
      ]_vars

\* C12 witness: an unstake was just refused as TokensLocked one day before the
\* end of the lock, after the first position was unstaked from the locked pool
\* (the flexible pool was never used, the position left has claimed nothing, and
\* the locked pool has paid out rewards).
C12_Witness ==
    /\ last.op = "unstake_tokens" /\ last.err = "TokensLocked"
    /\ last.id = 2 /\ staking_positions[2].end_time = now + 1
    /\ staking_positions[2].rewards_claimed = 0
    /\ 1 \notin DOMAIN staking_positions
    /\ staking_pools[1] = [total_staked |-> 0, total_rewards_distributed |-> 0]
    /\ staking_pools[2].total_rewards_distributed > 0

\* C13. Position ownership: unstake_tokens and claim_rewards on a position id
\* that does not exist or whose owner is not the caller end UnknownPosition and
\* change no balance, pool total or position; a successful unstake removes the
\* position and pays its principal and rewards to the owner alone; position ids
\* are never used again, so the principal is paid out at most once.
C13_PositionOwnership ==
    /\ [](\A id \in DOMAIN staking_positions :
            id < next_position_id /\ staking_positions[id].position_id = id)
    /\ [][ /\ next_position_id' >= next_position_id
           /\ (DOMAIN staking_positions') \ (DOMAIN staking_positions)
                 \subseteq {next_position_id}
           /\ last'.op \in {"unstake_tokens", "claim_rewards"} =>
                 IF \/ last'.id \notin DOMAIN staking_positions
                    \/ staking_positions[last'.id].user # last'.who
                 THEN /\ last'.err = "UnknownPosition"
                      /\ UNCHANGED tokenVars
                 ELSE /\ last'.err # "UnknownPosition"
                      /\ \A x \in DOMAIN balances :
                            x # last'.who => balances'[x] = balances[x]
           /\ (last'.op = "unstake_tokens" /\ last'.err = "ok") =>
                 LET position == staking_positions[last'.id] IN
                 /\ last'.id \notin DOMAIN staking_positions'
                 /\ balances'[position.user] =
                       balances[position.user] + position.amount
                         + calculate_rewards(position, now)
         ]_vars

\* C13 witness: a second unstake of a position that was paid out was just
\* refused as UnknownPosition, while the other user's position is still staked.
C13_Witness ==
    /\ last.op = "unstake_tokens" /\ last.err = "UnknownPosition"
    /\ last.id < next_position_id /\ last.id \notin DOMAIN staking_positions
    /\ \E id \in DOMAIN staking_positions : staking_positions[id].user # last.who

\* C14. Failed stake changes nothing: a stake_tokens call with an unknown pool
\* id, an amount below the pool's min_stake or an amount above the caller's
\* balance fails, and a failing stake_tokens changes no balance, no pool total,
\* no position and not the next position id.
C14_FailedStake ==
    [][last'.op = "stake_tokens" =>
          LET pool_id == last'.id
              amount  == last'.amount
          IN  /\ pool_id \notin PoolIds => last'.err = "UnknownPool"
              /\ (pool_id \in PoolIds /\ amount < PoolMinStake(pool_id))
                    => last'.err = "BelowMinimumStake"
              /\ amount > get_balance(balances, last'.who) => last'.err # "ok"
              /\ last'.err # "ok" => UNCHANGED tokenVars
      ]_vars

\* C14 witness: a stake of more than the caller's balance was just refused while
\* the caller holds a position.
C14_Witness ==
    /\ last.op = "stake_tokens" /\ last.err = "InsufficientBalance"
    /\ last.amount > get_balance(balances, last.who)
    /\ \E id \in DOMAIN staking_positions : staking_positions[id].user = last.who

\* The errors of a cast_vote that is refused before its first await
WindowErrors == {"ProposalNotFound", "VotingNotStarted", "VotingEnded"}

\* C15. Concurrent double vote: however the cast_vote calls of one voter on one
\* proposal interleave at their awaits, at most one of them records a vote, every
\* other one that passed the window checks ends AlreadyVoted, the vote list holds
\* one record of the voter, and the totals count its power once.
C15_ConcurrentDoubleVote ==
    /\ \A id \in DOMAIN proposals :
          /\ \A voter \in Address :
                Cardinality(existing_votes(votes[id], voter)) <= 1
          /\ proposals[id].votes_for + proposals[id].votes_against
                + proposals[id].votes_abstain
                = SumPower(votes[id], "for") + SumPower(votes[id], "against")
                    + SumPower(votes[id], "abstain")
    /\ \A t1 \in Tasks, t2 \in Tasks :
          ( /\ t1 # t2
            /\ calls[t1].op = "cast_vote" /\ calls[t2].op = "cast_vote"
            /\ calls[t1].who = calls[t2].who /\ calls[t1].id = calls[t2].id )
          => ~(calls[t1].recorded /\ calls[t2].recorded)
    /\ \A t \in Tasks :
          calls[t].op = "cast_vote" =>
            /\ calls[t].recorded =>
                  Cardinality(existing_votes(votes[calls[t].id], calls[t].who)) = 1
            /\ ( /\ calls[t].pc = "done" /\ ~calls[t].recorded
                 /\ calls[t].err \notin WindowErrors )
               => /\ calls[t].err = "AlreadyVoted"
                  /\ Cardinality(existing_votes(votes[calls[t].id], calls[t].who)) = 1

\* C15 witness: two cast_vote calls of one voter on one proposal both passed the
\* window checks while the vote list was empty; one has recorded the vote, the
\* other has ended AlreadyVoted.
C15_Witness ==
    \E t1 \in Tasks, t2 \in Tasks :
        /\ t1 # t2
        /\ calls[t1].op = "cast_vote" /\ calls[t2].op = "cast_vote"
        /\ calls[t1].who = calls[t2].who /\ calls[t1].id = calls[t2].id
        /\ calls[t1].votes_seen = 0 /\ calls[t2].votes_seen = 0
        /\ calls[t1].pc = "done" /\ calls[t1].recorded /\ calls[t1].err = "ok"
        /\ calls[t2].pc = "done" /\ calls[t2].err = "AlreadyVoted"
        /\ Len(votes[calls[t1].id]) = 1
        /\ proposals[calls[t1].id].votes_for = get_balance(balances, calls[t1].who)

C17_ConfigFrame ==
    [][ /\ config' # config =>
             /\ last'.op = "execute_proposal" /\ last'.err = "ok"
             /\ last'.id \in DOMAIN proposals
             /\ proposals[last'.id].status = "succeeded"
             /\ proposals'[last'.id].status = "executed"
             /\ proposals[last'.id].execution_payload.type = "parameter_change"
             /\ DOMAIN config' = DOMAIN config
             /\ \A f \in DOMAIN config :
                   f # proposals[last'.id].execution_payload.parameter
                     => config'[f] = config[f]
        /\ ( /\ last'.op = "execute_proposal" /\ last'.err = "ok"
             /\ proposals[last'.id].execution_payload.type = "parameter_change" )
           => LET payload == proposals[last'.id].execution_payload
              IN  config'[payload.parameter] = payload.value
      ]_vars

\* C17 witness: a staking call has just succeeded under a config that an
\* executed parameter_change has changed in execution_delay alone.
C17_Witness ==
    /\ last.op = "stake_tokens" /\ last.err = "ok"
    /\ config = [GovernanceConfig EXCEPT !.execution_delay = 1]
    /\ \E id \in DOMAIN proposals :
          /\ proposals[id].status = "executed"
          /\ proposals[id].execution_payload.type = "parameter_change"

\* The payloads that are present and name neither of the two known types
UnknownTypes == {"{}", "no_type", "mint"}

\* C18. Unknown payload rejected: an execute_proposal on a SUCCEEDED proposal
\* past its timelock whose payload has a type other than transfer and
\* parameter_change, or no type at all (the empty payload object included), ends
\* UnknownPayloadType and leaves the proposal SUCCEEDED.
C18_UnknownPayloadRejected ==
    [][\A id \in DOMAIN proposals :
          ( /\ last'.op = "execute_proposal" /\ last'.id = id
            /\ proposals[id].status = "succeeded"
            /\ now >= proposals[id].end_time + proposals[id].execution_delay
            /\ proposals[id].execution_payload.type \in UnknownTypes )
          => /\ last'.err = "UnknownPayloadType"
             /\ proposals'[id].status = "succeeded"
      ]_vars

\* C19. Invalid amount: a transfer of a zero or negative amount ends
\* InvalidAmount and changes no balance, whoever the sender and the receiver are.
C19_InvalidAmount ==
    [][(last'.op = "transfer" /\ last'.amount <= 0)
          => /\ last'.err = "InvalidAmount"
             /\ balances' = balances
      ]_vars

\* C20. Transfer outcomes: a transfer of more than the sender's balance ends
\* InsufficientBalance and changes nothing, creating no entry for the receiver; a
\* transfer of a positive amount within the sender's balance succeeds, takes
\* exactly the amount from the sender, gives exactly the amount to the receiver
\* (a transfer to oneself leaves the balance as it was) and changes no other
\* account.
C20_TransferOutcomes ==
    [][last'.op = "transfer" =>
          LET from_address == last'.who
              to_address   == last'.to
              amount       == last'.amount
              held         == get_balance(balances, from_address)
          IN  /\ amount > held =>
                    /\ last'.err = "InsufficientBalance"
                    /\ balances' = balances
              /\ (0 < amount /\ amount <= held) =>
                    /\ last'.err = "ok"
                    /\ DOMAIN balances' = DOMAIN balances \cup {from_address, to_address}
                    /\ \A x \in DOMAIN balances' :
                          get_balance(balances', x) =
                             get_balance(balances, x)
                               - (IF x = from_address THEN amount ELSE 0)
                               + (IF x = to_address THEN amount ELSE 0)
      ]_vars

\* C20 witness: a transfer of more than the sender still holds, to a party
\* without an entry, was just refused, after earlier transfers took from the
\* sender and gave to another party.
C20_Witness ==
    /\ last.op = "transfer" /\ last.err = "InsufficientBalance"
    /\ last.who \in DOMAIN balances /\ last.to \notin DOMAIN balances
    /\ last.amount > balances[last.who] /\ balances[last.who] > 0
    /\ \E x \in DOMAIN balances :
          /\ x # last.who
          /\ balances[x] > (CHOOSE b \in InitialBalances : TRUE)[x]
          /\ balances[last.who] < (CHOOSE b \in InitialBalances : TRUE)[last.who]

\* C21. Proposal power gate: a create_proposal by a proposer whose balance is
\* below the min_proposal_power of the current config ends
\* InsufficientProposalPower, stores no proposal and no vote list and leaves the
\* next proposal id as it was; with a balance at or above it the call succeeds;
\* neither changes any balance.
C21_ProposalPowerGate ==
    [][last'.op = "create_proposal" =>
          LET held == get_balance(balances, last'.who) IN
          /\ balances' = balances
          /\ held < config.min_proposal_power =>
                /\ last'.err = "InsufficientProposalPower"
                /\ UNCHANGED <<proposals, votes, next_proposal_id>>
          /\ held >= config.min_proposal_power =>
                /\ last'.err = "ok"
                /\ next_proposal_id \in DOMAIN proposals'
                /\ proposals'[next_proposal_id].proposer = last'.who
      ]_vars

\* C21 witness: a create_proposal was just refused to a proposer who holds more
\* than the default min_proposal_power, under a config whose min_proposal_power
\* an executed proposal has raised.
C21_Witness ==
    /\ last.op = "create_proposal" /\ last.err = "InsufficientProposalPower"
    /\ get_balance(balances, last.who) >= MinProposalPower
    /\ get_balance(balances, last.who) < config.min_proposal_power
    /\ \E id \in DOMAIN proposals : proposals[id].status = "executed"

\* C22. Proposal creation: a successful create_proposal stores, under the id
\* that was the next id, a DRAFT with zero tallies and an empty vote list, with
\* start_time = now + voting_delay and end_time = start_time + voting_period of
\* the config at that moment, and advances the next id by one; a failed one
\* leaves the next id; the ids in use are always 1 .. next id - 1, each proposal
\* keeps its id and its window, and none is removed.
C22_ProposalCreation ==
    /\ [](/\ DOMAIN proposals = 1..(next_proposal_id - 1)
          /\ DOMAIN votes = DOMAIN proposals
          /\ \A id \in DOMAIN proposals : proposals[id].id = id)
    /\ [][ /\ next_proposal_id' >= next_proposal_id
           /\ \A id \in DOMAIN proposals :
                 /\ id \in DOMAIN proposals'
                 /\ proposals'[id].start_time = proposals[id].start_time
                 /\ proposals'[id].end_time = proposals[id].end_time
           /\ (last'.op = "create_proposal" /\ last'.err = "ok") =>
                 LET id == next_proposal_id
                     p  == proposals'[id]
                 IN  /\ last'.id = id /\ id \notin DOMAIN proposals
                     /\ next_proposal_id' = id + 1
                     /\ p.id = id /\ p.status = "draft"
                     /\ p.votes_for = 0 /\ p.votes_against = 0 /\ p.votes_abstain = 0
                     /\ votes'[id] = <<>>
                     /\ p.start_time = now + config.voting_delay
                     /\ p.end_time = p.start_time + config.voting_period
                     /\ \A other \in DOMAIN proposals :
                           proposals'[other] = proposals[other]
           /\ (last'.op = "create_proposal" /\ last'.err # "ok") =>
                 /\ next_proposal_id' = next_proposal_id
                 /\ proposals' = proposals
         ]_vars

\* C22 witness: the second proposal was just created with the voting period that
\* the executed first proposal has put into the config.
C22_Witness ==
    /\ last.op = "create_proposal" /\ last.err = "ok" /\ last.id = 2
    /\ proposals[1].status = "executed"
    /\ proposals[1].end_time - proposals[1].start_time = VotingPeriod
    /\ proposals[2].end_time - proposals[2].start_time = config.voting_period
    /\ config.voting_period # VotingPeriod

\* C23. Successful stake: a stake_tokens with a known pool, an amount at or above
\* the pool's min_stake and within the caller's balance succeeds, takes exactly
\* the amount from the caller's balance, adds exactly the amount to the pool's
\* total_staked and creates exactly one position, under the id that was the next
\* id, owned by the caller, with the amount as principal, start_time =
\* last_claim_time = now, rewards_claimed = 0 and end_time = now + lock_period
\* in the locked pool and none in the flexible pool; nothing else changes.
C23_SuccessfulStake ==
    [][ /\ next_position_id' >= next_position_id
        /\ last'.op = "stake_tokens" =>
             LET user    == last'.who
                 pool_id == last'.id
                 amount  == last'.amount
                 id      == next_position_id
             IN  ( /\ pool_id \in PoolIds
                   /\ amount >= PoolMinStake(pool_id)
                   /\ amount <= get_balance(balances, user) ) =>
                 /\ last'.err = "ok"
                 /\ balances' = [balances EXCEPT ![user] = @ - amount]
                 /\ staking_pools' =
                       [staking_pools EXCEPT ![pool_id].total_staked = @ + amount]
                 /\ id \notin DOMAIN staking_positions
                 /\ DOMAIN staking_positions' = DOMAIN staking_positions \cup {id}
                 /\ \A other \in DOMAIN staking_positions :
                       staking_positions'[other] = staking_positions[other]
                 /\ next_position_id' = id + 1
                 /\ LET position == staking_positions'[id] IN
                    /\ position.position_id = id /\ position.user = user
                    /\ position.pool_id = pool_id /\ position.amount = amount
                    /\ position.start_time = now /\ position.last_claim_time = now
                    /\ position.rewards_claimed = 0
                    /\ PoolType(pool_id) = "flexible" => position.end_time = NoTime
                    /\ PoolType(pool_id) = "locked" =>
                          position.end_time = now + 30
      ]_vars

\* A stake by a user who already holds a position in the same pool has
\* succeeded: the user now holds two positions in that pool.
C23_Witness ==
    /\ last.op = "stake_tokens" /\ last.err = "ok"
    /\ \E x \in DOMAIN staking_positions, y \in DOMAIN staking_positions :
          /\ x < y /\ y = next_position_id - 1
          /\ staking_positions[x].user = last.who
          /\ staking_positions[y].user = last.who
          /\ staking_positions[x].pool_id = last.id
          /\ staking_positions[y].pool_id = last.id
          /\ staking_positions[y].end_time = staking_positions[y].start_time + 30

\* C24. Successful unstake: a successful unstake_tokens credits the caller's
\* balance with exactly principal + reward, where the reward is the pending
\* reward accrued since last_claim_time, lowers the pool's total_staked by the
\* principal, raises its total_rewards_distributed by the reward, removes the
\* position and returns the pair (principal, reward); nothing else changes.
C24_SuccessfulUnstake ==
    [][ (last'.op = "unstake_tokens" /\ last'.err = "ok") =>
          LET user     == last'.who
              id       == last'.id
              position == staking_positions[id]
              reward   == calculate_rewards(position, now)
          IN  /\ id \in DOMAIN staking_positions
              /\ last'.result = <<position.amount, reward>>
              /\ balances' = [balances EXCEPT ![user] = @ + position.amount + reward]
              /\ staking_pools' =
                    [staking_pools EXCEPT
                       ![position.pool_id].total_staked = @ - position.amount,
                       ![position.pool_id].total_rewards_distributed = @ + reward]
              /\ DOMAIN staking_positions' = DOMAIN staking_positions \ {id}
              /\ \A other \in DOMAIN staking_positions' :
                    staking_positions'[other] = staking_positions[other]
              /\ UNCHANGED <<next_position_id, govVars, now>>
      ]_vars

\* An unstake has paid a principal and a positive reward while another
\* position stays behind.
C24_Witness ==
    /\ last.op = "unstake_tokens" /\ last.err = "ok"
    /\ last.result[1] > 0 /\ last.result[2] > 0
    /\ last.id \notin DOMAIN staking_positions
    /\ staking_positions # << >>

\* C25. Reward claim: a successful claim_rewards credits the caller's balance
\* with exactly the pending reward, adds it to the position's rewards_claimed
\* and to the pool's total_rewards_distributed and sets last_claim_time to now,
\* so that a second claim at the same instant yields 0; the principal,
\* start_time, end_time, the pool's total_staked and the existence of the
\* position are unchanged; the owner may claim on a locked position before its
\* end_time.
C25_ClaimRewards ==
    [][ last'.op = "claim_rewards" =>
          LET user == last'.who
              id   == last'.id
          IN  /\ (id \in DOMAIN staking_positions /\ staking_positions[id].user = user)
                    => last'.err = "ok"
              /\ last'.err = "ok" =>
                    LET position == staking_positions[id]
                        reward   == calculate_rewards(position, now)
                    IN  /\ last'.result = reward
                        /\ balances' = [balances EXCEPT ![user] = @ + reward]
                        /\ staking_positions' =
                              [staking_positions EXCEPT
                                 ![id].rewards_claimed = @ + reward,
                                 ![id].last_claim_time = now]
                        /\ staking_pools' =
                              [staking_pools EXCEPT
                                 ![position.pool_id].total_rewards_distributed =
                                     @ + reward]
                        /\ calculate_rewards(staking_positions'[id], now') = 0
                        /\ (last.op = "claim_rewards" /\ last.err = "ok"
                              /\ last.id = id) => reward = 0
                        /\ UNCHANGED <<next_position_id, govVars, now>>
      ]_vars

\* The owner has claimed a positive reward on a locked position before its
\* end_time, after an earlier claim.
C25_Witness ==
    /\ last.op = "claim_rewards" /\ last.err = "ok" /\ last.result > 0
    /\ last.id \in DOMAIN staking_positions
    /\ LET position == staking_positions[last.id] IN
       /\ PoolType(position.pool_id) = "locked"
       /\ now < position.end_time
       /\ position.rewards_claimed > last.result

\* C26. Reward formula: the reward paid by claim_rewards and unstake_tokens is
\* principal * apr * elapsed / one year, where elapsed is the time since the
\* position's last_claim_time (its start_time when nothing was claimed); it is
\* never negative and is 0 when no time has elapsed; a principal of 5000 at
\* apr 0.25 over 365 days yields 1250.
C26_RewardFormula ==
    [][ (last'.op \in {"claim_rewards", "unstake_tokens"} /\ last'.err = "ok") =>
          LET position == staking_positions[last'.id]
              reward   == IF last'.op = "claim_rewards"
                          THEN last'.result ELSE last'.result[2]
              since    == IF position.rewards_claimed = 0
                             /\ position.last_claim_time = position.start_time
                          THEN position.start_time ELSE position.last_claim_time
              elapsed  == now - since
          IN  /\ position.last_claim_time >= position.start_time
              /\ reward * 100 * DaysPerYear =
                    position.amount * PoolApr(position.pool_id) * elapsed
              /\ reward >= 0
              /\ elapsed = 0 => reward = 0
              /\ ( position.amount = 5000 /\ PoolApr(position.pool_id) = 25
                    /\ elapsed = DaysPerYear ) => reward = 1250
              /\ balances'[last'.who] - balances[last'.who] =
                    reward + (IF last'.op = "unstake_tokens"
                              THEN position.amount ELSE 0)
      ]_vars

\* The example: a position of 5000 in the pool at 25 percent has been unstaked
\* 365 days after its last claim and has paid a reward of 1250.
C26_Witness ==
    /\ last.op = "unstake_tokens" /\ last.err = "ok"
    /\ last.result = <<5000, 1250>>
    /\ now >= DaysPerYear

\* The cast_vote calls made by a voter whose vote on the proposal is already
\* in the vote list
Repeated ==
    /\ last'.op = "cast_vote"
    /\ last'.id \in DOMAIN proposals
    /\ existing_votes(votes[last'.id], last'.who) # {}

\* C27 as stated. A second cast_vote call by a voter who already has a vote on
\* the proposal always fails with AlreadyVoted, at whatever time it is made,
\* including after the proposal's end_time.
C27_AlwaysAlreadyVoted ==
    [][ Repeated => last'.err = "AlreadyVoted" ]_vars

\* C27, amended. A second cast_vote call by a voter who already has a vote on
\* the proposal always fails and changes neither the vote list nor the
\* proposal: with AlreadyVoted while now <= end_time, and with VotingEnded once
\* now > end_time, because the voting window is checked first.
C27_RepeatedVote ==
    [][ Repeated =>
          /\ now >= proposals[last'.id].start_time
          /\ last'.err = IF now > proposals[last'.id].end_time
                         THEN "VotingEnded" ELSE "AlreadyVoted"
          /\ votes' = votes
          /\ proposals' = proposals
      ]_vars

\* A voter whose vote was accepted has voted again after the proposal's
\* end_time and was told VotingEnded.
C27_Witness ==
    /\ last.op = "cast_vote" /\ last.err = "VotingEnded"
    /\ last.id \in DOMAIN proposals
    /\ existing_votes(votes[last.id], last.who) # {}
    /\ now > proposals[last.id].end_time

\* The three tallies of a proposal
Tallies(p) == <<p.votes_for, p.votes_against, p.votes_abstain>>

\* The tallies of a proposal after a vote of the given type and power
Counted(p, vote_type, power) ==
    << p.votes_for     + (IF vote_type = "for"     THEN power ELSE 0),
       p.votes_against + (IF vote_type = "against" THEN power ELSE 0),
       p.votes_abstain + (IF vote_type = "abstain" THEN power ELSE 0) >>

C29_ProposalResult ==
    [][ (last'.op = "get_proposal_result" /\ last'.id \in DOMAIN proposals) =>
          LET p      == proposals[last'.id]
              total  == p.votes_for + p.votes_against + p.votes_abstain
              result == last'.result
              again  == check_proposal_state(proposals'[last'.id], now', config')
          IN  /\ last'.err = "ok"
              /\ result.participation_rate = [num |-> total, den |-> TotalSupply]
              /\ p.votes_for + p.votes_against > 0 =>
                    result.approval_rate =
                      [num |-> p.votes_for, den |-> p.votes_for + p.votes_against]
              /\ p.votes_for + p.votes_against = 0 => result.approval_rate.num = 0
              /\ result.quorum_reached =
                    (total * 100 >= p.required_quorum * TotalSupply)
              /\ <<result.votes_for, result.votes_against, result.votes_abstain>>
                    = Tallies(p)
              /\ proposals' =
                    [proposals EXCEPT ![last'.id].status = proposals'[last'.id].status]
              /\ result.status = proposals'[last'.id].status
              /\ UNCHANGED <<votes, config, next_proposal_id, now, tokenVars>>
              /\ again.err = "ok"
              /\ proposal_result(again.p).participation_rate = result.participation_rate
              /\ proposal_result(again.p).approval_rate = result.approval_rate
              /\ proposal_result(again.p).quorum_reached = result.quorum_reached
      ]_vars

\* C30. Failed vote changes nothing: every cast_vote call that returns an error
\* leaves the proposal's vote list and its three tallies exactly as they were
\* before the call, including when the error arises in the resolve step that
\* runs after the vote has been appended.
C30_FailedVoteChangesNothing ==
    [][ (last'.op = "cast_vote" /\ last'.err # "ok") =>
          /\ votes' = votes
          /\ \A id \in DOMAIN proposals :
                Tallies(proposals'[id]) = Tallies(proposals[id])
      ]_vars

\* The statuses of a resolved proposal
Resolved == {"succeeded", "defeated", "executed"}

\* C31. Tallies are final once resolved: after a proposal's status has become
\* SUCCEEDED, DEFEATED or EXECUTED no cast_vote call is accepted for it and its
\* three tallies and its vote list never change again, also at the boundary
\* instant now = end_time; so the stored outcome agrees with the resolution rule
\* applied to the current tallies.
C31_TalliesFinal ==
    [][ \A id \in DOMAIN proposals :
          proposals[id].status \in Resolved =>
            /\ Tallies(proposals'[id]) = Tallies(proposals[id])
            /\ votes'[id] = votes[id]
            /\ (last'.op = "cast_vote" /\ last'.id = id) => last'.err # "ok"
      ]_vars

\* C32. One access resolves: after a get_proposal or get_proposal_result call
\* made at now >= end_time that returns normally, the proposal's status is
\* SUCCEEDED, DEFEATED or EXECUTED, never DRAFT or ACTIVE, also for a proposal
\* that nobody accessed between its creation and its end_time.
C32_OneAccessResolves ==
    [][ ( /\ last'.op \in Reads /\ last'.err = "ok"
          /\ last'.id \in DOMAIN proposals
          /\ now >= proposals[last'.id].end_time )
        => proposals'[last'.id].status \in Resolved
      ]_vars

\* Sum of the principal of the live positions of a pool
Principal(positions, pool_id) ==
    LET live   == {id \in DOMAIN positions : positions[id].pool_id = pool_id}
        amount == [id \in live |-> positions[id].amount]
    IN  SumOver(amount, live)

\* All account balances plus the principal of all live positions
Value(b, positions) ==
    SumBalances(b) + Principal(positions, 1) + Principal(positions, 2)

\* The rewards distributed by all pools
Distributed(pools) ==
    pools[1].total_rewards_distributed + pools[2].total_rewards_distributed

\* C33. Value accounting: after any sequence of transfer, stake, unstake and
\* claim_rewards calls, the sum of all balances plus the principal of all live
\* positions equals its initial value plus the rewards distributed by the
\* pools; it is constant over a step that distributes no reward, and a reward
\* is credited to its claimant with no other account debited.
C33_ValueAccounting ==
    /\ [](Value(balances, staking_positions) - Distributed(staking_pools)
            = 50000 + 30000)
    /\ [][ /\ Value(balances', staking_positions') - Value(balances, staking_positions)
               = Distributed(staking_pools') - Distributed(staking_pools)
           /\ Distributed(staking_pools') >= Distributed(staking_pools)
           /\ last'.op \in {"unstake_tokens", "claim_rewards"} =>
                 \A x \in DOMAIN balances :
                    x # last'.who => balances'[x] = balances[x]
         ]_vars

\* Rewards have been distributed, a position is live, and a transfer to a new
\* address has just succeeded.
C33_Witness ==
    /\ last.op = "transfer" /\ last.err = "ok" /\ last.to = "c"
    /\ Distributed(staking_pools) > 0
    /\ staking_positions # << >>
    /\ SumBalances(balances) > 50000 + 30000 - Principal(staking_positions, 1)
                                 - Principal(staking_positions, 2)

\* C34. Pool total consistency: in every reachable state each pool's
\* total_staked equals the sum of the principal of the live positions in that
\* pool (so it is never negative), each live position refers to an existing
\* pool, and each pool's total_rewards_distributed never decreases.
C34_PoolTotals ==
    /\ [](/\ \A pool_id \in PoolIds :
               /\ staking_pools[pool_id].total_staked
                     = Principal(staking_positions, pool_id)
               /\ staking_pools[pool_id].total_staked >= 0
           /\ \A id \in DOMAIN staking_positions :
                 staking_positions[id].pool_id \in DOMAIN staking_pools)
    /\ [][ \A pool_id \in PoolIds :
              staking_pools'[pool_id].total_rewards_distributed
                >= staking_pools[pool_id].total_rewards_distributed ]_vars

\* Both pools hold a live position, one pool has distributed rewards, and a
\* position has just been unstaked.
C34_Witness ==
    /\ last.op = "unstake_tokens" /\ last.err = "ok"
    /\ \E x \in DOMAIN staking_positions :
          /\ staking_pools[staking_positions[x].pool_id].total_staked > 0
          /\ staking_pools[staking_positions[x].pool_id].total_rewards_distributed > 0
    /\ \E pool_id \in PoolIds : staking_pools[pool_id].total_staked = 0

C36_ConfigBinding ==
    [][ \A id \in DOMAIN proposals :
          LET p == proposals[id]
              q == proposals'[id]
              total == q.votes_for + q.votes_against + q.votes_abstain
          IN  /\ q.start_time = p.start_time /\ q.end_time = p.end_time
              /\ q.execution_delay = p.execution_delay
              /\ q.required_quorum = p.required_quorum
              /\ (p.status = "active" /\ q.status # "active") =>
                    /\ q.status \in {"succeeded", "defeated"}
                    /\ (q.status = "succeeded") =
                         ( /\ total * 100 >= p.required_quorum * TotalSupply
                           /\ q.votes_for * 100 >=
                                config.proposal_threshold
                                  * (q.votes_for + q.votes_against) )
      ]_vars

\* One proposal has raised the threshold to 0.7 and the other one, approved by
\* 50000 of 80000 votes (more than the 0.5 of its creation), is DEFEATED.
C36_Witness ==
    /\ config.proposal_threshold = 70
    /\ \E id \in DOMAIN proposals, other \in DOMAIN proposals :
          /\ proposals[id].status = "executed"
          /\ proposals[id].execution_payload.type = "parameter_change"
          /\ proposals[other].status = "defeated"
          /\ proposals[other].votes_for = 50000
          /\ proposals[other].votes_against = 30000
          /\ proposals[other].required_quorum = RequiredQuorum

C39_EventualResolution ==
    \A id \in 1..MaxProposals :
       (id \in DOMAIN proposals)
          ~> (id \in DOMAIN proposals
              /\ proposals[id].status \in {"succeeded", "defeated"})

====
